---------------------------- MODULE Spec2Model ----------------------------
(***************************************************************************)
(* Model of proto_explorer: the import-root resolver (proto_finder.py) and *)
(* the descriptor tree renderers (proto_explorer.py: oneof groups and      *)
(* repeated markers; proto_explore_searcher.py: regex search and filter).  *)
(*                                                                         *)
(* Strings are sequences of one-character strings, paths are sequences of  *)
(* path components, so that concatenation, searching and relative paths    *)
(* are computed and not assumed.                                           *)
(***************************************************************************)
EXTENDS Integers, Sequences, FiniteSets, TLC

VARIABLES
    \* ---- proto_finder.find_proto_root ----
    fs,           \* the filesystem: [files, dirs], two sets of absolute paths
    proto_file,   \* the resolved path p handed to find_proto_root
    text,         \* the import declarations of the file, in order of appearance
    max_levels,   \* the max_levels argument
    result,       \* what find_proto_root returned or raised
    extracted,    \* what a direct _extract_imports call returned
    \* ---- show_message (both revisions) ----
    variant,      \* "explorer" (proto_explorer.py) or "searcher" (proto_explore_searcher.py)
    pool,         \* the descriptor graph: full name -> [fields, map_entry]
    selected,     \* the message the call is made for
    match_result, \* what a direct descriptor_matches call returned
    search_str,   \* the text of the "Regex Search" box
    filter_mode,  \* the "Show only matching branches" checkbox
    regex,        \* the compiled pattern, or None
    sidebar_error,\* whether main reported "Invalid regex"
    stack,        \* the active show_message calls, innermost last
    shown,        \* the shown set shared by one top-level call
    out,          \* the display directives emitted so far
    pc            \* "idle", "main", "render" or "done"

vars == <<fs, proto_file, text, max_levels, result, extracted,
          variant, pool, selected, match_result, search_str, filter_mode, regex, sidebar_error,
          stack, shown, out, pc>>

finderVars == <<fs, proto_file, text, max_levels, result, extracted>>
renderVars == <<variant, pool, selected, match_result, search_str, filter_mode, regex, sidebar_error,
                stack, shown, out, pc>>

None == "None"

\* ------------------------------------------------------------------------
\* Generic helpers
\* ------------------------------------------------------------------------

\* All sequences over S of length at most n.
RECURSIVE SeqsUpTo(_, _)
SeqsUpTo(S, n) ==
    IF n = 0 THEN {<<>>}
    ELSE LET shorter == SeqsUpTo(S, n - 1)
         IN  shorter \cup {Append(s, x) : s \in {t \in shorter : Len(t) = n - 1}, x \in S}

Range(s) == {s[i] : i \in 1..Len(s)}

IsPrefix(a, b) == Len(a) <= Len(b) /\ SubSeq(b, 1, Len(a)) = a

\* ------------------------------------------------------------------------
\* proto_finder.py
\* ------------------------------------------------------------------------

\* Bounds of the finder's inputs.
MaxDepth == 2        \* directories between the filesystem root and the file
MaxImports == 3      \* import declarations in the file

\* find_proto_root(proto_file, max_levels=16)
DefaultMaxLevels == 16

\* The import paths the bounded files may declare, as path components.
ImpX == <<"x.proto">>
ImpY == <<"shared", "common.proto">>
ImportPool == {ImpX, ImpY}

\* An import declaration line: `import [modifier]<gap>"path";`. gap says
\* whether whitespace separates the modifier from the opening quote.
Decl(mod, gap, path) == [mod |-> mod, gap |-> gap, path |-> path]
DeclPool == {Decl("none", TRUE, ImpX), Decl("none", TRUE, ImpY),
             Decl("public", TRUE, ImpX)}

\* _IMPORT_RE = ^\s*import\s+(?:public|weak\s+)?\"([^\"]+)\"\s*;
\* After `import\s+` the optional group is either skipped, or matches
\* "public" immediately followed by the quote, or "weak" followed by
\* whitespace and the quote.
ImportReMatches(d) ==
    \/ d.mod = "none"
    \/ d.mod = "public" /\ ~d.gap
    \/ d.mod = "weak" /\ d.gap

\* _extract_imports: findall returns the captured paths in order.
RECURSIVE _extract_imports(_)
_extract_imports(t) ==
    IF t = <<>> THEN <<>>
    ELSE LET rest == _extract_imports(Tail(t))
         IN  IF ImportReMatches(Head(t)) THEN <<Head(t).path>> \o rest ELSE rest

\* pathlib: Path.parent (the root is its own parent), exists(), is_dir().
PathParent(path) == IF path = <<>> THEN <<>> ELSE SubSeq(path, 1, Len(path) - 1)
PathExists(f, path) == path \in f.files \/ path \in f.dirs
PathIsDir(f, path) == path \in f.dirs
PathSuffix(path) == IF path = <<>> THEN "" ELSE
    IF path[Len(path)] \in {"a.proto"} THEN ".proto" ELSE ".txt"

\* _score_candidate: the loop counting the imports that exist under candidate.
RECURSIVE CountResolved(_, _, _)
CountResolved(f, candidate, imports) ==
    IF imports = <<>> THEN 0
    ELSE (IF PathExists(f, candidate \o Head(imports)) THEN 1 ELSE 0)
         + CountResolved(f, candidate, Tail(imports))

\* _score_candidate: the structure bonus (relative_to raises ValueError when
\* the file is not under the candidate, which leaves the bonus 0).
StructureBonus(f, candidate, p) ==
    IF ~IsPrefix(candidate, p) THEN 0
    ELSE LET rel_parts == SubSeq(p, Len(candidate) + 1, Len(p))
         IN  IF Len(rel_parts) >= 2 /\ PathIsDir(f, candidate \o <<rel_parts[1]>>)
             THEN 1 ELSE 0

_score_candidate(f, candidate, p, imports) ==
    <<CountResolved(f, candidate, imports), StructureBonus(f, candidate, p)>>

\* The candidate loop of find_proto_root: the parent, then each ancestor,
\* until the root or max_levels candidates.
RECURSIVE CollectCandidates(_, _, _, _)
CollectCandidates(parent, levels, maxl, acc) ==
    LET acc2 == Append(acc, parent)
        levels2 == levels + 1
    IN  IF PathParent(parent) = parent \/ levels2 >= maxl THEN acc2
        ELSE CollectCandidates(PathParent(parent), levels2, maxl, acc2)

\* Tuple comparison (a, b) > (c, d) of Python.
PairGreater(s, t) == s[1] > t[1] \/ (s[1] = t[1] /\ s[2] > t[2])
PairGreaterOrEqual(s, t) == s[1] > t[1] \/ (s[1] = t[1] /\ s[2] >= t[2])

\* Mutant of Improves: `>=` for `>`, so the farthest of equal candidates wins.
ImprovesOnTie(score, best) ==
    best = <<>> \/ PairGreaterOrEqual(score, <<best[1], best[2]>>)

\* best: Optional[Tuple[int, int, Path]] = None
NoBest == <<>>

\* The replacement test of the scoring loop: best is None or score > best.
Improves(score, best) == best = NoBest \/ PairGreater(score, <<best[1], best[2]>>)

\* The scoring loop of find_proto_root.
RECURSIVE BestCandidate(_, _, _, _, _)
BestCandidate(f, cands, p, imports, best) ==
    IF cands = <<>> THEN best
    ELSE LET cand == Head(cands)
         IN  IF ~PathIsDir(f, cand)
             THEN BestCandidate(f, Tail(cands), p, imports, best)
             ELSE LET score == _score_candidate(f, cand, p, imports)
                  IN  BestCandidate(f, Tail(cands), p, imports,
                          IF Improves(score, best)
                          THEN <<score[1], score[2], cand>> ELSE best)

\* The fallback test before the return of the chosen candidate.
FallsBack(resolved_count, bonus) == resolved_count = 0 /\ bonus = 0

Ok(path) == [kind |-> "ok", path |-> path]
Raised(e) == [kind |-> e, path |-> <<>>]
NoResult == [kind |-> "none", path |-> <<>>]
\* No direct _extract_imports call was made; Extracted(l) is what one returned.
NotExtracted == [called |-> FALSE, paths |-> <<>>]
Extracted(l) == [called |-> TRUE, paths |-> l]

find_proto_root(f, p, decls, maxl) ==
    IF ~PathExists(f, p) THEN Raised("FileNotFoundError")
    ELSE IF PathSuffix(p) # ".proto" THEN Raised("ValueError")
    ELSE LET imports == _extract_imports(decls)
             candidates == CollectCandidates(PathParent(p), 0, maxl, <<>>)
             best == BestCandidate(f, candidates, p, imports, NoBest)
         IN  IF best = NoBest THEN Ok(PathParent(p))
             ELSE IF FallsBack(best[1], best[2]) THEN Ok(PathParent(p))
             ELSE Ok(best[3])

\* ---- the bounded inputs of the finder ----

DirNames == <<"d1", "d2", "d3", "d4", "d5">>
FileNames == {"a.proto", "a.txt"}

\* The directory chain of depth n below the root.
Chain(n) == [i \in 1..n |-> DirNames[i]]

\* All ancestors of path, path included.
Ancestors(path) == {SubSeq(path, 1, k) : k \in 0..Len(path)}

\* A filesystem holding the chain, the file (when present) and the files
\* `extra` (each with its directories).
MkFs(dir, file, present, extra) ==
    [files |-> extra \cup (IF present THEN {Append(dir, file)} ELSE {}),
     dirs  |-> Ancestors(dir) \cup UNION {Ancestors(PathParent(e)) : e \in extra}]

InitFinder ==
    \E n \in 1..MaxDepth, file \in FileNames, present \in BOOLEAN :
      LET dir == Chain(n)
          places == {c \o imp : c \in Ancestors(dir), imp \in ImportPool}
      IN  /\ \E extra \in SUBSET places : fs = MkFs(dir, file, present, extra)
          /\ proto_file = Append(dir, file)
          /\ text \in SeqsUpTo(DeclPool, MaxImports)
          /\ max_levels \in {1, 2, DefaultMaxLevels}
          /\ result = NoResult
          /\ extracted = NotExtracted

RenderIdle ==
    /\ variant = None /\ pool = None /\ selected = <<>> /\ match_result = None
    /\ search_str = <<>> /\ filter_mode = FALSE
    /\ regex = None /\ sidebar_error = FALSE /\ stack = <<>> /\ shown = {}
    /\ out = <<>> /\ pc = "idle"

InitRoot == InitFinder /\ RenderIdle

\* compile_proto's call: proto_root = find_proto_root(proto_file)
FindProtoRoot ==
    /\ result = NoResult
    /\ result' = find_proto_root(fs, proto_file, text, max_levels)
    /\ UNCHANGED <<fs, proto_file, text, max_levels, extracted>>
    /\ UNCHANGED renderVars

NextRoot == FindProtoRoot

SpecRoot == InitRoot /\ [][NextRoot]_vars

\* ---- properties of find_proto_root ----

Returned == result.kind = "ok"
Imports == _extract_imports(text)
FileDir == PathParent(proto_file)

\* The k-th candidate, counted from the file: 1 is the containing directory.
Ancestor(k) == SubSeq(FileDir, 1, Len(FileDir) - (k - 1))
\* How many candidates the walk collects: up to the root, at most max_levels.
NumCollected == IF max_levels < Len(FileDir) + 1 THEN max_levels ELSE Len(FileDir) + 1
Score(k) == _score_candidate(fs, Ancestor(k), proto_file, Imports)

\* C1: a file from which zero import paths are extracted resolves to its
\* immediate parent directory, however many ancestors lie above it.
C1_ZeroImportsGiveParent ==
    (Returned /\ Imports = <<>>) => result.path = FileDir

RemoveAt(s, i) == SubSeq(s, 1, i - 1) \o SubSeq(s, i + 1, Len(s))
SwapAt(s, i) == [k \in 1..Len(s) |->
                   IF k = i THEN s[i + 1] ELSE IF k = i + 1 THEN s[i] ELSE s[k]]

\* C10: the chosen directory depends neither on the order of the import
\* declarations nor on how many times a path is declared: dropping a
\* declaration that duplicates another one gives the same result.
C10_DuplicatesAndOrderIrrelevant ==
    Returned =>
        /\ \A i \in 1..Len(text) :
              (\E j \in 1..Len(text) : j # i /\ text[j] = text[i])
              => find_proto_root(fs, proto_file, RemoveAt(text, i), max_levels) = result
        /\ \A i \in 1..(Len(text) - 1) :
              find_proto_root(fs, proto_file, SwapAt(text, i), max_levels) = result

\* The order half of C10 alone, which does hold.
OrderIrrelevant ==
    Returned =>
        \A i \in 1..(Len(text) - 1) :
            find_proto_root(fs, proto_file, SwapAt(text, i), max_levels) = result

\* ------------------------------------------------------------------------
\* Descriptors (google.protobuf.descriptor, as the renderers read them)
\* ------------------------------------------------------------------------

\* FieldDescriptor.TYPE_* codes, and TYPE_NAMES built from them.
TYPE_INT32 == 5
TYPE_STRING == 9
TYPE_MESSAGE == 11
TYPE_ENUM == 14

TYPE_NAMES(t) ==
    CASE t = TYPE_INT32   -> <<"I", "N", "T", "3", "2">>
      [] t = TYPE_STRING  -> <<"S", "T", "R", "I", "N", "G">>
      [] t = TYPE_MESSAGE -> <<"M", "E", "S", "S", "A", "G", "E">>
      [] t = TYPE_ENUM    -> <<"E", "N", "U", "M">>

\* Full names. NoRef stands for a message_type / enum_type /
\* containing_oneof that is None.
NoRef == <<>>
MsgA == <<"A">>
MsgB == <<"B">>
MsgC == <<"C">>
EntryM == <<"A", ".", "M">>      \* the synthetic entry type of map field m
EnumE == <<"E">>

Field(name, type, mt, et, rep, oneof) ==
    [name |-> name, type |-> type, message_type |-> mt, enum_type |-> et,
     is_repeated |-> rep, containing_oneof |-> oneof]

\* The fields the bounded messages are built from.
fX == Field(<<"x">>, TYPE_INT32, NoRef, NoRef, FALSE, NoRef)
fE == Field(<<"e">>, TYPE_ENUM, NoRef, EnumE, FALSE, NoRef)
fA == Field(<<"a">>, TYPE_MESSAGE, MsgA, NoRef, FALSE, NoRef)
fB == Field(<<"b">>, TYPE_MESSAGE, MsgB, NoRef, TRUE, NoRef)
fC == Field(<<"c">>, TYPE_MESSAGE, MsgC, NoRef, FALSE, <<"g">>)
fS == Field(<<"s">>, TYPE_STRING, NoRef, NoRef, FALSE, <<"g">>)
fT == Field(<<"t">>, TYPE_INT32, NoRef, NoRef, FALSE, <<"h">>)
fM == Field(<<"m">>, TYPE_MESSAGE, EntryM, NoRef, TRUE, NoRef)   \* map<string, B>
fKey == Field(<<"k", "e", "y">>, TYPE_STRING, NoRef, NoRef, FALSE, NoRef)
fValue == Field(<<"v", "a", "l", "u", "e">>, TYPE_MESSAGE, MsgB, NoRef, FALSE, NoRef)

FieldPool == {fX, fE, fA, fB, fC, fS, fT, fM}

\* Bound of the descriptor graphs: the fields of the selected message.
MaxFields == 2

\* Field names are unique within a message.
Injective(s) == \A i, j \in 1..Len(s) : s[i] = s[j] => i = j
FieldLists == {s \in SeqsUpTo(FieldPool, MaxFields) : Injective(s)}
FieldListsB == {<<>>, <<fX>>, <<fC>>, <<fB>>}
FieldListsC == {<<>>, <<fX>>, <<fA>>}

Message(fields, map_entry) == [fields |-> fields, map_entry |-> map_entry]

\* The descriptor graphs: A, B and C with the chosen fields, and A's map
\* entry type.
Graph(la, lb, lc) ==
    (MsgA :> Message(la, FALSE)) @@ (MsgB :> Message(lb, FALSE))
    @@ (MsgC :> Message(lc, FALSE)) @@ (EntryM :> Message(<<fKey, fValue>>, TRUE))
Graphs == {Graph(la, lb, lc) : la \in FieldLists, lb \in FieldListsB, lc \in FieldListsC}

\* ------------------------------------------------------------------------
\* Patterns (re.compile, Pattern.search) over the strings of the model: a
\* literal, optionally anchored by ^ and $; an unclosed ( does not compile.
\* ------------------------------------------------------------------------

NoRegex == [kind |-> "None", bol |-> FALSE, eol |-> FALSE, lit |-> <<>>]
Pattern(bol, eol, lit) == [kind |-> "Pattern", bol |-> bol, eol |-> eol, lit |-> lit]

\* re.compile raises re.error
Malformed(s) == \E i \in 1..Len(s) : s[i] = "("

re_compile(s) ==
    LET bol == Len(s) >= 1 /\ s[1] = "^"
        eol == Len(s) >= 1 /\ s[Len(s)] = "$" /\ ~(bol /\ Len(s) = 1)
        from == IF bol THEN 2 ELSE 1
        to == IF eol THEN Len(s) - 1 ELSE Len(s)
    IN  Pattern(bol, eol, SubSeq(s, from, to))

\* regex.search(str) is not None
re_search(r, str) ==
    \E start \in 1..(Len(str) + 1) :
        LET end == start + Len(r.lit) - 1
        IN  /\ end <= Len(str)
            /\ SubSeq(str, start, end) = r.lit
            /\ r.bol => start = 1
            /\ r.eol => end = Len(str)

\* The texts typed into the search box.
SearchStrings == {<<>>, <<"(">>, <<"x">>, <<"b">>, <<"C">>, <<"E">>, <<"^", "x", "$">>}

\* ------------------------------------------------------------------------
\* proto_explore_searcher.descriptor_matches
\* ------------------------------------------------------------------------

\* Mutant of SeenResult: a revisited message counts as a match.
SeenResultTrue == TRUE

\* if desc.full_name in seen: return False
SeenResult == FALSE

\* The calls return [res, seen]: the boolean, and the seen set as the call
\* left it (the set is shared by the whole recursion).
RECURSIVE descriptor_matches_in(_, _, _, _)
RECURSIVE descriptor_matches_fields(_, _, _, _, _)

\* The loop over desc.fields, from field i on.
descriptor_matches_fields(g, desc, r, seen, i) ==
    IF i > Len(g[desc].fields) THEN [res |-> FALSE, seen |-> seen]
    ELSE LET f == g[desc].fields[i]
         IN  IF re_search(r, f.name) THEN [res |-> TRUE, seen |-> seen]
             ELSE IF f.type = TYPE_MESSAGE /\ f.message_type # NoRef
             THEN IF re_search(r, f.message_type) THEN [res |-> TRUE, seen |-> seen]
                  ELSE LET sub == descriptor_matches_in(g, f.message_type, r, seen)
                       IN  IF sub.res THEN sub
                           ELSE descriptor_matches_fields(g, desc, r, sub.seen, i + 1)
             ELSE IF f.type = TYPE_ENUM /\ f.enum_type # NoRef /\ re_search(r, f.enum_type)
             THEN [res |-> TRUE, seen |-> seen]
             ELSE descriptor_matches_fields(g, desc, r, seen, i + 1)

descriptor_matches_in(g, desc, r, seen) ==
    IF r = NoRegex THEN [res |-> FALSE, seen |-> seen]
    ELSE IF desc \in seen THEN [res |-> SeenResult, seen |-> seen]
    ELSE IF re_search(r, desc) THEN [res |-> TRUE, seen |-> seen \cup {desc}]
    ELSE descriptor_matches_fields(g, desc, r, seen \cup {desc}, 1)

\* descriptor_matches(desc, regex): seen=None makes a fresh set.
descriptor_matches(g, desc, r) == descriptor_matches_in(g, desc, r, {}).res

\* ---- a direct call of descriptor_matches on every bounded input ----

ValidPatterns == {re_compile(s) : s \in {t \in SearchStrings : t # <<>> /\ ~Malformed(t)}}

FinderIdle ==
    /\ fs = [files |-> {}, dirs |-> {}] /\ proto_file = <<>> /\ text = <<>>
    /\ max_levels = DefaultMaxLevels /\ result = NoResult
    /\ extracted = NotExtracted

InitMatch ==
    /\ FinderIdle
    /\ variant = None
    /\ pool \in Graphs
    /\ selected \in {MsgA, MsgB, MsgC}
    /\ regex \in ValidPatterns
    /\ match_result = None
    /\ search_str = <<>> /\ filter_mode = FALSE /\ sidebar_error = FALSE
    /\ stack = <<>> /\ shown = {} /\ out = <<>> /\ pc = "match"

CallDescriptorMatches ==
    /\ pc = "match"
    /\ match_result' = descriptor_matches(pool, selected, regex)
    /\ pc' = "done"
    /\ UNCHANGED <<variant, pool, selected, search_str, filter_mode, regex,
                   sidebar_error, stack, shown, out>>
    /\ UNCHANGED finderVars

NextMatch == CallDescriptorMatches

SpecMatch == InitMatch /\ [][NextMatch]_vars

\* ---- properties of descriptor_matches ----

\* The messages a message references through its message-typed fields.
Refs(g, m) == {g[m].fields[i].message_type :
                 i \in {k \in 1..Len(g[m].fields) : g[m].fields[k].type = TYPE_MESSAGE}}

\* The messages reachable from m, m included.
RECURSIVE ReachFrom(_, _)
ReachFrom(g, S) ==
    LET next == S \cup UNION {Refs(g, m) : m \in S}
    IN  IF next = S THEN S ELSE ReachFrom(g, next)
Reachable(g, m) == ReachFrom(g, {m})

\* The pattern matches m's own full name, one of its field names, or the
\* full name of a message or enum type one of its fields references.
LocalMatch(g, m, r) ==
    \/ re_search(r, m)
    \/ \E i \in 1..Len(g[m].fields) :
          LET f == g[m].fields[i]
          IN  \/ re_search(r, f.name)
              \/ f.type = TYPE_MESSAGE /\ re_search(r, f.message_type)
              \/ f.type = TYPE_ENUM /\ re_search(r, f.enum_type)

SomeReachableMatches(g, m, r) == \E n \in Reachable(g, m) : LocalMatch(g, n, r)

\* C3: on every finite descriptor graph, cyclic or not, descriptor_matches
\* with a fresh seen set returns, and returns true exactly when some message
\* reachable from desc has a matching full name, field name or directly
\* referenced message or enum type name.
C3_MatchesIffReachableMatch ==
    pc = "done" =>
        /\ match_result \in BOOLEAN
        /\ match_result = SomeReachableMatches(pool, selected, regex)

\* Witness of C3: the call was made on a cycle of three messages (A, B and
\* C reference each other in turn, and A itself as well), and the only match
\* is two references away from the selected message.
C3_Witness ==
    /\ pc = "done" /\ match_result = TRUE
    /\ selected = MsgB
    /\ MsgC \in Refs(pool, MsgB) /\ MsgA \in Refs(pool, MsgC) /\ MsgB \in Refs(pool, MsgA)
    /\ MsgA \in Refs(pool, MsgA)
    /\ ~LocalMatch(pool, MsgB, regex) /\ ~LocalMatch(pool, MsgC, regex)

\* Witness that a call on a cyclic graph without any match returns false.
C3_WitnessNoMatch ==
    /\ pc = "done" /\ match_result = FALSE
    /\ selected = MsgA /\ MsgA \in Refs(pool, MsgA)
    /\ MsgC \in Refs(pool, MsgB) /\ MsgA \in Refs(pool, MsgC) /\ MsgB \in Refs(pool, MsgA)

\* ------------------------------------------------------------------------
\* show_message: what both revisions share
\* ------------------------------------------------------------------------

\* field.type == TYPE_MESSAGE and field.message_type
\*   and field.message_type.GetOptions().map_entry
is_map(g, f) ==
    f.type = TYPE_MESSAGE /\ f.message_type # NoRef /\ g[f.message_type].map_entry

\* message_type.fields_by_name[name]
fields_by_name(g, m, name) ==
    LET fl == g[m].fields
    IN  fl[CHOOSE i \in 1..Len(fl) : fl[i].name = name]

\* f"map<{key_type}{sep}{value_type}>": the key by its type code, the value
\* by the referenced message's full name when it is a message and by its
\* type code otherwise.
MapTypeName(g, f, sep) ==
    LET key_type == TYPE_NAMES(fields_by_name(g, f.message_type, <<"k", "e", "y">>).type)
        v == fields_by_name(g, f.message_type, <<"v", "a", "l", "u", "e">>)
        val == IF v.type = TYPE_MESSAGE /\ v.message_type # NoRef
               THEN v.message_type ELSE TYPE_NAMES(v.type)
    IN  <<"m", "a", "p", "<">> \o key_type \o sep \o val \o <<">">>

\* The readable type name of a field; sep is "," (searcher) or ", "
\* (explorer). FieldDescriptor has no type_name attribute, so the
\* explorer's getattr(field, "type_name", None) falls through to TYPE_NAMES.
TypeName(g, f, sep) ==
    IF f.type = TYPE_MESSAGE /\ f.message_type # NoRef
    THEN IF is_map(g, f) THEN MapTypeName(g, f, sep) ELSE f.message_type
    ELSE IF f.type = TYPE_ENUM /\ f.enum_type # NoRef THEN f.enum_type
    ELSE TYPE_NAMES(f.type)

\* f"- {field.name}: {type_name}"
Label(f, type_name) == <<"-", " ">> \o f.name \o <<":", " ">> \o type_name

RepeatedMarker == <<" ", "[", "r", "e", "p", "e", "a", "t", "e", "d", "]">>

\* A display directive. depth is the indentation level of a line and the
\* call depth of a panel; owner and field name the message and field a line
\* stands for; path lists the messages of the enclosing calls, outermost
\* first.
Directive(kind, depth, txt, match, expanded, owner, field, path) ==
    [kind |-> kind, depth |-> depth, text |-> txt, match |-> match,
     expanded |-> expanded, owner |-> owner, field |-> field, path |-> path]

\* One active call of show_message: the searcher walks desc.fields with i;
\* the explorer walks regular_fields with i (phase "regular"), then the
\* alternatives of oneof group number grp with j (phase "oneof").
Frame(desc, depth, phase) ==
    [desc |-> desc, depth |-> depth, phase |-> phase, i |-> 1, grp |-> 0, j |-> 0]

Top == stack[Len(stack)]
PathOf(st) == [k \in 1..Len(st) |-> st[k].desc]
State(st, sh, o) == [stack |-> st, shown |-> sh, out |-> o]
Advance(st, fld) == [st EXCEPT ![Len(st)][fld] = @ + 1]

\* Mutant of AlreadyShown: the guard only works from depth 2 on.
AlreadyShownDeep(name, sh, depth) == depth >= 2 /\ name \in sh

\* if desc.full_name in shown (depth is the depth of the call that tests)
AlreadyShown(name, sh, depth) == name \in sh

\* ------------------------------------------------------------------------
\* proto_explore_searcher.show_message
\* ------------------------------------------------------------------------

\* Mutant of Expand: the pattern is ignored.
ExpandRootOnly(g, name, depth, r) == depth = 0

\* Mutant of Expand: only the message's own full name is searched.
ExpandOnOwnName(g, name, depth, r) ==
    depth = 0 \/ (r # NoRegex /\ re_search(r, name))

\* expand = bool(depth == 0 or (regex and descriptor_matches(desc, regex)))
Expand(g, name, depth, r) ==
    depth = 0 \/ (r # NoRegex /\ descriptor_matches(g, name, r))

\* Entry of show_message(desc, depth, shown, regex, filter_mode): the
\* cycle guard, then the panel and its header line.
EnterSearcher(g, name, depth, r, s) ==
    IF AlreadyShown(name, s.shown, depth) THEN s
    ELSE LET match_here == r # NoRegex /\ re_search(r, name)
         IN  State(Append(s.stack, Frame(name, depth, "fields")),
                   s.shown \cup {name},
                   s.out \o <<Directive("panel", depth, name, FALSE,
                                        Expand(g, name, depth, r), name, NoRef,
                                        PathOf(s.stack)),
                              Directive("header", depth, name, match_here, FALSE,
                                        name, NoRef, <<>>)>>)

\* Mutant of Omitted: the field's own label is not consulted.
OmittedIgnoringLabel(g, f, r, match_field, fm) ==
    /\ f.type = TYPE_MESSAGE /\ f.message_type # NoRef
    /\ r # NoRegex /\ ~descriptor_matches(g, f.message_type, r)
    /\ fm

\* Mutant of Omitted: filter mode works without a pattern too.
OmittedWithoutPattern(g, f, r, match_field, fm) ==
    /\ f.type = TYPE_MESSAGE /\ f.message_type # NoRef
    /\ ~match_field /\ ~descriptor_matches(g, f.message_type, r)
    /\ fm

\* The `continue` of the field loop.
Omitted(g, f, r, match_field, fm) ==
    /\ f.type = TYPE_MESSAGE /\ f.message_type # NoRef
    /\ r # NoRegex /\ ~match_field /\ ~descriptor_matches(g, f.message_type, r)
    /\ fm

\* main of the searcher: compile the pattern, then the top-level call.
MainSearcher ==
    /\ pc = "main" /\ variant = "searcher"
    /\ LET bad == search_str # <<>> /\ Malformed(search_str)
           r == IF search_str = <<>> \/ bad THEN NoRegex ELSE re_compile(search_str)
           s == EnterSearcher(pool, selected, 0, r, State(<<>>, {}, <<>>))
       IN  /\ regex' = r
           /\ sidebar_error' = bad
           /\ stack' = s.stack /\ shown' = s.shown /\ out' = s.out
    /\ pc' = "render"
    /\ UNCHANGED <<variant, pool, selected, match_result, search_str, filter_mode>>
    /\ UNCHANGED finderVars

\* One iteration of `for field in desc.fields` of the searcher.
SearcherField ==
    /\ pc = "render" /\ variant = "searcher"
    /\ Top.i <= Len(pool[Top.desc].fields)
    /\ LET f == pool[Top.desc].fields[Top.i]
           label == Label(f, TypeName(pool, f, <<",">>))
           match_field == regex # NoRegex /\ re_search(regex, label)
           next == Advance(stack, "i")
           line == Directive("field", Top.depth, label, match_field, FALSE,
                             Top.desc, f.name, <<>>)
           s == IF Omitted(pool, f, regex, match_field, filter_mode)
                THEN State(next, shown, out)
                ELSE IF f.type = TYPE_MESSAGE /\ ~is_map(pool, f)
                THEN EnterSearcher(pool, f.message_type, Top.depth + 1, regex,
                                   State(next, shown, Append(out, line)))
                ELSE State(next, shown, Append(out, line))
       IN  stack' = s.stack /\ shown' = s.shown /\ out' = s.out
    /\ UNCHANGED <<variant, pool, selected, match_result, search_str, filter_mode,
                   regex, sidebar_error, pc>>
    /\ UNCHANGED finderVars

\* ------------------------------------------------------------------------
\* proto_explorer.show_message
\* ------------------------------------------------------------------------

\* regular_fields = [f for f in desc.fields if not f.containing_oneof]
RECURSIVE regular_fields(_)
regular_fields(fl) ==
    IF fl = <<>> THEN <<>>
    ELSE (IF Head(fl).containing_oneof = NoRef THEN <<Head(fl)>> ELSE <<>>)
         \o regular_fields(Tail(fl))

\* The keys of oneof_fields, in insertion order.
RECURSIVE oneof_names(_, _)
oneof_names(fl, acc) ==
    IF fl = <<>> THEN acc
    ELSE LET n == Head(fl).containing_oneof
         IN  oneof_names(Tail(fl),
                 IF n = NoRef \/ n \in Range(acc) THEN acc ELSE Append(acc, n))

\* oneof_fields[name]
RECURSIVE oneof_fields(_, _)
oneof_fields(fl, name) ==
    IF fl = <<>> THEN <<>>
    ELSE (IF Head(fl).containing_oneof = name THEN <<Head(fl)>> ELSE <<>>)
         \o oneof_fields(Tail(fl), name)

\* if field.is_repeated and not is_map: label += " [repeated]"
RepeatedSuffix(g, f) == IF f.is_repeated /\ ~is_map(g, f) THEN RepeatedMarker ELSE <<>>

ExplorerLabel(g, f) == Label(f, TypeName(g, f, <<",", " ">>)) \o RepeatedSuffix(g, f)

\* Entry of show_message(desc, depth, shown): a revisit writes the
\* "(recursive)" marker and returns.
EnterExplorer(g, name, depth, s) ==
    IF AlreadyShown(name, s.shown, depth)
    THEN State(s.stack, s.shown,
               Append(s.out, Directive("recursive", depth, name, FALSE, FALSE,
                                       name, NoRef, <<>>)))
    ELSE State(Append(s.stack, Frame(name, depth, "regular")),
               s.shown \cup {name},
               Append(s.out, Directive("panel", depth, name, FALSE, depth = 0,
                                       name, NoRef, PathOf(s.stack))))

\* A field line at the given indentation, and the recursion into a
\* message-typed field that is not a map.
ExplorerEmit(g, f, owner, indent, depth, s) ==
    LET line == Directive("field", indent, ExplorerLabel(g, f), FALSE, FALSE,
                          owner, f.name, <<>>)
        s1 == State(s.stack, s.shown, Append(s.out, line))
    IN  IF f.type = TYPE_MESSAGE /\ ~is_map(g, f) /\ f.message_type # NoRef
        THEN EnterExplorer(g, f.message_type, depth, s1)
        ELSE s1

\* main of the explorer: the top-level call.
MainExplorer ==
    /\ pc = "main" /\ variant = "explorer"
    /\ LET s == EnterExplorer(pool, selected, 0, State(<<>>, {}, <<>>))
       IN  stack' = s.stack /\ shown' = s.shown /\ out' = s.out
    /\ pc' = "render"
    /\ UNCHANGED <<variant, pool, selected, match_result, search_str, filter_mode,
                   regex, sidebar_error>>
    /\ UNCHANGED finderVars

\* One iteration of `for field in regular_fields`.
ExplorerRegularField ==
    /\ pc = "render" /\ variant = "explorer" /\ Top.phase = "regular"
    /\ Top.i <= Len(regular_fields(pool[Top.desc].fields))
    /\ LET f == regular_fields(pool[Top.desc].fields)[Top.i]
           s == ExplorerEmit(pool, f, Top.desc, Top.depth, Top.depth + 1,
                             State(Advance(stack, "i"), shown, out))
       IN  stack' = s.stack /\ shown' = s.shown /\ out' = s.out
    /\ UNCHANGED <<variant, pool, selected, match_result, search_str, filter_mode,
                   regex, sidebar_error, pc>>
    /\ UNCHANGED finderVars

\* Whether the loop the top frame is in has run out.
LoopDone(fr) ==
    LET fl == pool[fr.desc].fields
    IN  \/ fr.phase = "fields" /\ fr.i > Len(fl)
        \/ fr.phase = "regular" /\ fr.i > Len(regular_fields(fl))
        \/ fr.phase = "oneof"
             /\ fr.j > Len(oneof_fields(fl, oneof_names(fl, <<>>)[fr.grp]))

\* One iteration of `for oneof_name, fields in oneof_fields.items()` up to
\* the inner loop: the group's label and its "(oneof options)" panel.
ExplorerOneofGroup ==
    /\ pc = "render" /\ variant = "explorer"
    /\ LoopDone(Top)
    /\ Top.grp < Len(oneof_names(pool[Top.desc].fields, <<>>))
    /\ LET name == oneof_names(pool[Top.desc].fields, <<>>)[Top.grp + 1]
       IN  /\ out' = out \o <<Directive("oneof", Top.depth, name, FALSE, FALSE,
                                        Top.desc, NoRef, <<>>),
                              Directive("oneof_panel", Top.depth + 1, name, FALSE,
                                        FALSE, Top.desc, NoRef, <<>>)>>
           /\ stack' = [stack EXCEPT ![Len(stack)].phase = "oneof",
                                     ![Len(stack)].grp = @ + 1,
                                     ![Len(stack)].j = 1]
    /\ UNCHANGED <<variant, pool, selected, match_result, search_str, filter_mode,
                   regex, sidebar_error, shown, pc>>
    /\ UNCHANGED finderVars

\* One iteration of `for field in fields` inside a oneof group.
ExplorerOneofField ==
    /\ pc = "render" /\ variant = "explorer" /\ Top.phase = "oneof"
    /\ ~LoopDone(Top)
    /\ LET fl == pool[Top.desc].fields
           f == oneof_fields(fl, oneof_names(fl, <<>>)[Top.grp])[Top.j]
           s == ExplorerEmit(pool, f, Top.desc, Top.depth + 1, Top.depth + 2,
                             State(Advance(stack, "j"), shown, out))
       IN  stack' = s.stack /\ shown' = s.shown /\ out' = s.out
    /\ UNCHANGED <<variant, pool, selected, match_result, search_str, filter_mode,
                   regex, sidebar_error, pc>>
    /\ UNCHANGED finderVars

\* The end of a show_message call of either revision: back to the caller,
\* or the render is complete.
Return ==
    /\ pc = "render" /\ stack # <<>>
    /\ LoopDone(Top)
    /\ Top.phase # "fields" => Top.grp >= Len(oneof_names(pool[Top.desc].fields, <<>>))
    /\ stack' = SubSeq(stack, 1, Len(stack) - 1)
    /\ pc' = IF Len(stack) = 1 THEN "done" ELSE "render"
    /\ UNCHANGED <<variant, pool, selected, match_result, search_str, filter_mode,
                   regex, sidebar_error, shown, out>>
    /\ UNCHANGED finderVars

InitRender ==
    /\ FinderIdle
    /\ pool \in Graphs
    /\ selected = MsgA
    /\ variant \in {"searcher", "explorer"}
    /\ search_str \in (IF variant = "searcher" THEN SearchStrings ELSE {<<>>})
    /\ filter_mode \in (IF variant = "searcher" THEN BOOLEAN ELSE {FALSE})
    /\ regex = NoRegex /\ sidebar_error = FALSE /\ match_result = None
    /\ stack = <<>> /\ shown = {} /\ out = <<>> /\ pc = "main"

NextRender ==
    \/ MainSearcher
    \/ SearcherField
    \/ MainExplorer
    \/ ExplorerRegularField
    \/ ExplorerOneofGroup
    \/ ExplorerOneofField
    \/ Return

SpecRender == InitRender /\ [][NextRender]_vars

\* Both programs are single-threaded and run each call to its end.
FairSpecRender == SpecRender /\ WF_vars(NextRender)

\* ---- properties of show_message ----

Done == pc = "done"
Panels == {k \in 1..Len(out) : out[k].kind = "panel"}
FieldLines == {k \in 1..Len(out) : out[k].kind = "field"}
HasPattern == regex # NoRegex

\* The field of message m with the given name.
FieldOf(m, name) == fields_by_name(pool, m, name)

NoRepeatOnPath == \A k \in Panels : out[k].text \notin Range(out[k].path)

\* The sum of the values of function f over the set S.
RECURSIVE SumOver(_, _)
SumOver(S, f) ==
    IF S = {} THEN 0
    ELSE LET x == CHOOSE y \in S : TRUE IN f[x] + SumOver(S \ {x}, f)

\* The steps a call still has to take: the iterations left in its loops,
\* and its return.
Remaining(fr) ==
    LET fl == pool[fr.desc].fields
        names == oneof_names(fl, <<>>)
        GroupSteps == [n \in 1..Len(names) |-> 1 + Len(oneof_fields(fl, names[n]))]
    IN  CASE fr.phase = "fields" -> Len(fl) - fr.i + 2
          [] fr.phase = "regular" ->
                Len(regular_fields(fl)) - fr.i + 2 + SumOver(1..Len(names), GroupSteps)
          [] fr.phase = "oneof" ->
                Len(oneof_fields(fl, names[fr.grp])) - fr.j + 2
                + SumOver((fr.grp + 1)..Len(names), GroupSteps)

\* The steps of a whole call for message m.
Work(m) == Remaining(Frame(m, 0, IF variant = "searcher" THEN "fields" ELSE "regular"))

\* A bound on the steps the render has left: the calls not made yet, the
\* active calls, and main's own step.
Rank ==
    LET FrameSteps == [k \in 1..Len(stack) |-> Remaining(stack[k])]
        CallSteps == [m \in DOMAIN pool |-> Work(m)]
    IN  (IF pc = "main" THEN 1 ELSE 0)
        + SumOver({m \in DOMAIN pool : m \notin shown /\ ~pool[m].map_entry}, CallSteps)
        + SumOver(1..Len(stack), FrameSteps)

\* C4: on every finite descriptor graph, cyclic or not, a top-level
\* show_message call comes to its end (every step lowers a natural-valued
\* bound on the steps left, and a step is possible until the call is done),
\* and no panel is emitted for a message whose panel already encloses it
\* (no full name twice on a root-to-leaf path).
C4_TerminatesWithoutRepeatOnPath ==
    /\ []NoRepeatOnPath
    /\ [](Rank \in Nat)
    /\ [][Rank' < Rank]_vars
    /\ [](Done \/ ENABLED NextRender)

\* The same termination, stated as liveness under fairness.
Terminates == <>Done

\* Witness of C4: a finished render of the cycle A -> B -> C -> A in which
\* the panel of C lies inside those of A and B.
C4_Witness ==
    /\ Done
    /\ MsgA \in Refs(pool, MsgC)
    /\ \E k \in Panels : out[k].text = MsgC /\ out[k].path = <<MsgA, MsgB>>

EndsWith(str, suffix) ==
    /\ Len(str) >= Len(suffix)
    /\ SubSeq(str, Len(str) - Len(suffix) + 1, Len(str)) = suffix

MapPrefix == <<"m", "a", "p", "<">>
\* The text after "- name: " starts with map< and ends with >.
LabelledAsMap(f, label) ==
    LET head == <<"-", " ">> \o f.name \o <<":", " ">> \o MapPrefix
    IN  IsPrefix(head, label) /\ EndsWith(label, <<">">>)

MarkerAsClaimed(k) ==
    LET f == FieldOf(out[k].owner, out[k].field)
    IN  /\ EndsWith(out[k].text, RepeatedMarker) <=> (f.is_repeated /\ ~is_map(pool, f))
        /\ is_map(pool, f) => LabelledAsMap(f, out[k].text)

\* C6: in every rendered field label the repeated marker is present exactly
\* when the field is repeated and not a map; a map field is labelled
\* map<K,V> and carries no marker.
C6_RepeatedMarkerIffRepeatedNonMap == \A k \in FieldLines : MarkerAsClaimed(k)

\* C6 for the explorer's labels alone, which does hold.
ExplorerRepeatedMarker == variant = "explorer" => \A k \in FieldLines : MarkerAsClaimed(k)

\* C7: every message panel is suggested expanded exactly when its depth is 0,
\* or a pattern is present and some message reachable from the panel's
\* message matches it; without a pattern only the root panel is expanded.
C7_ExpandedIffRootOrMatch ==
    /\ \A k \in Panels :
          out[k].expanded <=>
              \/ out[k].depth = 0
              \/ HasPattern /\ SomeReachableMatches(pool, out[k].text, regex)
    /\ ~HasPattern => \A k \in Panels : out[k].expanded <=> k = 1

\* Witness of C7: a render with a pattern in which one nested panel is
\* suggested expanded and another is not.
C7_Witness ==
    /\ Done /\ HasPattern
    /\ \E k \in Panels : out[k].depth > 0 /\ out[k].expanded
    /\ \E k \in Panels : out[k].depth > 0 /\ ~out[k].expanded

Searcher == variant = "searcher"
SearcherLabel(f) == Label(f, TypeName(pool, f, <<",">>))
LinesFor(m, name) == {k \in FieldLines : out[k].owner = m /\ out[k].field = name}

\* What the filter policy says of field f: filter mode on, a pattern
\* present, a message-typed field whose label does not match and below
\* which no reachable message matches.
OmitExpected(f) ==
    /\ filter_mode /\ HasPattern
    /\ f.type = TYPE_MESSAGE
    /\ ~re_search(regex, SearcherLabel(f))
    /\ ~SomeReachableMatches(pool, f.message_type, regex)

\* Every nested panel directly follows the line of a field that references
\* its message, emitted by the enclosing call.
DescentOnlyBelowLine ==
    \A k \in Panels : k > 1 =>
        /\ out[k - 1].kind = "field"
        /\ out[k - 1].owner = out[k].path[Len(out[k].path)]
        /\ FieldOf(out[k - 1].owner, out[k - 1].field).message_type = out[k].text

\* C5: with filter mode on and a pattern present, the searcher omits a
\* message-typed field (no line, no descent) exactly when its label does not
\* match and the referenced message fails descriptor_matches; the top-level
\* message and every other field are emitted; with filter mode off every
\* field of every visited message is emitted.
C5_FilterOmitsExactlyNonMatching ==
    (Searcher /\ Done) =>
        /\ out[1].kind = "panel" /\ out[1].text = selected
        /\ \A m \in shown : \A i \in 1..Len(pool[m].fields) :
              LET f == pool[m].fields[i]
              IN  Cardinality(LinesFor(m, f.name)) = IF OmitExpected(f) THEN 0 ELSE 1
        /\ DescentOnlyBelowLine

\* Witness of C5: a filtered render whose top-level name does not match,
\* which kept one message-typed field for a match below it (its label does
\* not match) and omitted another.
C5_Witness ==
    /\ Searcher /\ Done /\ filter_mode /\ HasPattern
    /\ ~re_search(regex, selected)
    /\ \E i, j \in 1..Len(pool[selected].fields) :
          LET f == pool[selected].fields[i]
              h == pool[selected].fields[j]
          IN  /\ f.type = TYPE_MESSAGE /\ ~is_map(pool, f)
              /\ ~re_search(regex, SearcherLabel(f))
              /\ LinesFor(selected, f.name) # {}
              /\ f.message_type \in shown
              /\ h.type = TYPE_MESSAGE /\ ~is_map(pool, h)
              /\ LinesFor(selected, h.name) = {}
              /\ h.message_type \notin shown

\* The render without pattern and filter: the panel and header of each
\* message on its first visit, every field line, unflagged, in declaration
\* order, descending below each message-typed field that is not a map.
RECURSIVE PlainShow(_, _, _, _, _)
RECURSIVE PlainFields(_, _, _, _, _, _)
PlainFields(g, name, depth, path, i, s) ==
    IF i > Len(g[name].fields) THEN s
    ELSE LET f == g[name].fields[i]
             line == Directive("field", depth, Label(f, TypeName(g, f, <<",">>)),
                               FALSE, FALSE, name, f.name, <<>>)
             s1 == [shown |-> s.shown, out |-> Append(s.out, line)]
             s2 == IF f.type = TYPE_MESSAGE /\ ~is_map(g, f)
                   THEN PlainShow(g, f.message_type, depth + 1, Append(path, name), s1)
                   ELSE s1
         IN  PlainFields(g, name, depth, path, i + 1, s2)
PlainShow(g, name, depth, path, s) ==
    IF name \in s.shown THEN s
    ELSE PlainFields(g, name, depth, path, 1,
            [shown |-> s.shown \cup {name},
             out |-> s.out \o <<Directive("panel", depth, name, FALSE, depth = 0,
                                          name, NoRef, path),
                                Directive("header", depth, name, FALSE, FALSE,
                                          name, NoRef, <<>>)>>])
PlainRender == PlainShow(pool, selected, 0, <<>>, [shown |-> {}, out |-> <<>>]).out

NoPatternTyped == search_str = <<>> \/ Malformed(search_str)

\* C8: when the search pattern is absent, empty or malformed, the searcher
\* still renders (a malformed pattern is reported and replaced by none), and
\* the output is the plain render whether filter mode is on or off: every
\* field of every visited message, nothing flagged as a match.
C8_NoPatternRendersUnfiltered ==
    (Searcher /\ NoPatternTyped /\ pc # "main") =>
        /\ ~HasPattern
        /\ sidebar_error <=> Malformed(search_str)
        /\ \A k \in 1..Len(out) : ~out[k].match
        /\ IsPrefix(out, PlainRender)
        /\ Done => out = PlainRender
        /\ Done \/ ENABLED NextRender

\* Witness of C8: a finished render after a malformed pattern with filter
\* mode on, showing a message-typed field and the message below it.
C8_Witness ==
    /\ Searcher /\ Done /\ filter_mode /\ sidebar_error
    /\ \E k \in Panels : k > 1

\* The lines of message m, as <<kind, name>>: its field lines and its oneof
\* group labels, in the order of emission.
RECURSIVE Project(_, _)
Project(o, m) ==
    IF o = <<>> THEN <<>>
    ELSE LET d == Head(o)
         IN  (IF d.owner = m /\ d.kind = "field" THEN <<<<"field", d.field>>>>
              ELSE IF d.owner = m /\ d.kind = "oneof" THEN <<<<"oneof", d.text>>>>
              ELSE <<>>) \o Project(Tail(o), m)

RECURSIVE FieldEntries(_)
FieldEntries(fl) ==
    IF fl = <<>> THEN <<>> ELSE <<<<"field", Head(fl).name>>>> \o FieldEntries(Tail(fl))

\* The oneof sections of a message: each group's label, then its
\* alternatives in declaration order, groups by first appearance.
RECURSIVE GroupEntries(_, _)
GroupEntries(fl, names) ==
    IF names = <<>> THEN <<>>
    ELSE <<<<"oneof", Head(names)>>>>
         \o FieldEntries(SelectSeq(fl, LAMBDA f : f.containing_oneof = Head(names)))
         \o GroupEntries(fl, Tail(names))

\* Group names by first appearance.
FirstAppearances(fl) ==
    LET firsts == {i \in 1..Len(fl) :
                     /\ fl[i].containing_oneof # NoRef
                     /\ \A j \in 1..(i - 1) : fl[j].containing_oneof # fl[i].containing_oneof}
        RECURSIVE InOrder(_, _)
        InOrder(i, acc) ==
            IF i > Len(fl) THEN acc
            ELSE InOrder(i + 1, IF i \in firsts THEN Append(acc, fl[i].containing_oneof)
                                ELSE acc)
    IN  InOrder(1, <<>>)

ExpectedEntries(m) ==
    LET fl == pool[m].fields
    IN  FieldEntries(SelectSeq(fl, LAMBDA f : f.containing_oneof = NoRef))
        \o GroupEntries(fl, FirstAppearances(fl))

PanelDepth(m) == out[CHOOSE k \in Panels : out[k].text = m].depth

\* A nested panel lies one level below a regular field's message and two
\* levels below a oneof alternative's.
DepthBelowLine ==
    \A k \in Panels : k > 1 =>
        LET line == out[k - 1]
        IN  /\ line.kind = "field"
            /\ out[k].depth = PanelDepth(line.owner)
                 + (IF FieldOf(line.owner, line.field).containing_oneof # NoRef
                    THEN 2 ELSE 1)

GroupedAsClaimed ==
    Done => /\ \A m \in shown : Project(out, m) = ExpectedEntries(m)
            /\ DepthBelowLine

\* C9: show_message emits every field of a visited message exactly once: the
\* fields outside any oneof first, in declaration order, then each oneof
\* group as a labelled section (groups by first appearance, alternatives in
\* declaration order), a message-typed alternative recursed at depth + 2.
C9_RegularThenOneofGroups == GroupedAsClaimed

\* C9 for the explorer alone, which does hold.
ExplorerRegularThenOneofGroups == variant = "explorer" => GroupedAsClaimed

\* ------------------------------------------------------------------------
\* The cycle guard's output
\* ------------------------------------------------------------------------

\* The directives a step appends to the output.
Emitted == SubSeq(out', Len(out) + 1, Len(out'))

\* The directives that stand for a show_message call on a message, as
\* opposed to a line of one of its fields or oneof groups.
CallDirectives(o) ==
    {k \in 1..Len(o) : o[k].field = NoRef /\ o[k].kind \notin {"oneof", "oneof_panel"}}

\* A step emits nothing for, and opens no call on, a message that was
\* already in the visited set.
RevisitIsSilent ==
    /\ Len(out') >= Len(out)
    /\ \A k \in CallDirectives(Emitted) : Emitted[k].owner \notin shown
    /\ Len(stack') > Len(stack) => stack'[Len(stack')].desc \notin shown

\* C11: when show_message is entered for a message whose full name is
\* already in the visited set, it emits no directive at all for that message
\* and does not recurse.
C11_RevisitEmitsNothing == [][RevisitIsSilent]_vars

\* C11 for the searcher alone, which does hold.
SearcherRevisitIsSilent == [][variant = "searcher" => RevisitIsSilent]_vars

\* A render of the searcher has reached a field whose message was already
\* visited, and added nothing but the field's line.
SearcherRevisitReached ==
    /\ Done /\ variant = "searcher"
    /\ \E k \in FieldLines :
         LET f == FieldOf(out[k].owner, out[k].field)
         IN  /\ f.type = TYPE_MESSAGE /\ ~is_map(pool, f)
             /\ f.message_type \in {out[j].text : j \in {p \in Panels : p < k}}

\* ------------------------------------------------------------------------
\* Type labels: renders of schemas with every kind of field and map
\* ------------------------------------------------------------------------

\* Two more map fields of A and their synthetic entry types.
EntryP == <<"A", ".", "P">>
EntryQ == <<"A", ".", "Q">>
fP == Field(<<"p">>, TYPE_MESSAGE, EntryP, NoRef, TRUE, NoRef)   \* map<string, E>
fQ == Field(<<"q">>, TYPE_MESSAGE, EntryQ, NoRef, TRUE, NoRef)   \* map<int32, string>
fKeyInt == Field(<<"k", "e", "y">>, TYPE_INT32, NoRef, NoRef, FALSE, NoRef)
fValueEnum == Field(<<"v", "a", "l", "u", "e">>, TYPE_ENUM, NoRef, EnumE, FALSE, NoRef)
fValueString == Field(<<"v", "a", "l", "u", "e">>, TYPE_STRING, NoRef, NoRef, FALSE, NoRef)

LabelFieldPool == {fX, fE, fB, fC, fS, fM, fP, fQ}
LabelFieldLists == {s \in SeqsUpTo(LabelFieldPool, MaxFields) : Injective(s)}

\* A with the chosen fields, B with one scalar, C empty, and the three map
\* entry types.
LabelGraph(la) ==
    Graph(la, <<fX>>, <<>>)
    @@ (EntryP :> Message(<<fKey, fValueEnum>>, TRUE))
    @@ (EntryQ :> Message(<<fKeyInt, fValueString>>, TRUE))
LabelGraphs == {LabelGraph(la) : la \in LabelFieldLists}

InitLabels ==
    /\ FinderIdle
    /\ pool \in LabelGraphs
    /\ selected = MsgA
    /\ variant \in {"searcher", "explorer"}
    /\ search_str \in (IF variant = "searcher" THEN {<<>>, <<"E">>} ELSE {<<>>})
    /\ filter_mode \in (IF variant = "searcher" THEN BOOLEAN ELSE {FALSE})
    /\ regex = NoRegex /\ sidebar_error = FALSE /\ match_result = None
    /\ stack = <<>> /\ shown = {} /\ out = <<>> /\ pc = "main"

SpecLabels == InitLabels /\ [][NextRender]_vars

\* ---- properties of the type labels ----

\* The type name by the precedence map > message > enum > scalar, a map's
\* key and value resolved by the same rule.
RECURSIVE ResolvedTypeName(_, _, _)
ResolvedTypeName(g, f, sep) ==
    IF is_map(g, f)
    THEN <<"m", "a", "p", "<">>
         \o ResolvedTypeName(g, fields_by_name(g, f.message_type, <<"k", "e", "y">>), sep)
         \o sep
         \o ResolvedTypeName(g, fields_by_name(g, f.message_type,
                                               <<"v", "a", "l", "u", "e">>), sep)
         \o <<">">>
    ELSE IF f.type = TYPE_MESSAGE THEN f.message_type
    ELSE IF f.type = TYPE_ENUM THEN f.enum_type
    ELSE TYPE_NAMES(f.type)

\* The separator each revision writes between K and V.
Separator == IF variant = "searcher" THEN <<",">> ELSE <<",", " ">>

\* Line k reads "- name: type" with the given type, the repeated marker
\* aside.
LineHasType(k, type_name) ==
    LET f == FieldOf(out[k].owner, out[k].field)
    IN  out[k].text \in {Label(f, type_name), Label(f, type_name) \o RepeatedMarker}

LabelsResolved(lines) ==
    \A k \in lines :
        LineHasType(k, ResolvedTypeName(pool, FieldOf(out[k].owner, out[k].field),
                                        Separator))

\* C12: every field line carries the type label resolved by the precedence
\* map > message > enum > scalar: map<K,V> with K and V resolved by the same
\* rule, a message's or an enum's full name, or the scalar name of the
\* field's type code.
C12_TypeLabelPrecedence == LabelsResolved(FieldLines)

\* The map fields whose entry has an enum-typed value.
EnumValuedMap(f) ==
    /\ is_map(pool, f)
    /\ fields_by_name(pool, f.message_type, <<"v", "a", "l", "u", "e">>).type = TYPE_ENUM

\* C12 apart from enum-valued maps, which does hold.
LabelsResolvedButEnumValues ==
    LabelsResolved({k \in FieldLines :
                      ~EnumValuedMap(FieldOf(out[k].owner, out[k].field))})

\* A finished render showing a map, a message, an enum and a scalar field
\* between A and B.
AllKindsLabelled ==
    /\ Done
    /\ \E k \in FieldLines : is_map(pool, FieldOf(out[k].owner, out[k].field))
    /\ \E k \in FieldLines : out[k].field = fB.name
    /\ \E k \in FieldLines : out[k].field = fX.name

\* What an enum-valued map is labelled in fact: the scalar name of the
\* value's type code.
EnumValuedMapLabelledENUM ==
    \A k \in FieldLines :
        LET f == FieldOf(out[k].owner, out[k].field)
        IN  EnumValuedMap(f) =>
              out[k].text = Label(f, <<"m", "a", "p", "<">> \o TYPE_NAMES(TYPE_STRING)
                                     \o Separator \o TYPE_NAMES(TYPE_ENUM) \o <<">">>)

\* ------------------------------------------------------------------------
\* _extract_imports on files with every form of import line
\* ------------------------------------------------------------------------

\* `// import "path";`: a commented-out import. The line does not start
\* with optional whitespace and `import`, so _IMPORT_RE does not match it.
CommentedOut(path) == [mod |-> "//", gap |-> TRUE, path |-> path]

\* The lines of the bounded files: plain, public and weak declarations, the
\* modifier written with and without whitespace before the quote, and
\* commented-out imports.
LinePool ==
    {Decl("none", TRUE, imp) : imp \in ImportPool}
    \cup {Decl(mod, gap, imp) : mod \in {"public", "weak"}, gap \in BOOLEAN,
                                imp \in ImportPool}
    \cup {CommentedOut(imp) : imp \in ImportPool}

InitImports ==
    /\ fs = [files |-> {<<"a.proto">>}, dirs |-> {<<>>}]
    /\ proto_file = <<"a.proto">>
    /\ text \in SeqsUpTo(LinePool, MaxImports)
    /\ max_levels = DefaultMaxLevels /\ result = NoResult
    /\ extracted = NotExtracted
    /\ RenderIdle

\* A call of _extract_imports(proto_file).
ExtractImports ==
    /\ ~extracted.called
    /\ extracted' = Extracted(_extract_imports(text))
    /\ UNCHANGED <<fs, proto_file, text, max_levels, result>>
    /\ UNCHANGED renderVars

NextImports == ExtractImports

SpecImports == InitImports /\ [][NextImports]_vars

\* ---- properties of _extract_imports ----

IsDeclaration(line) == line.mod \in {"none", "public", "weak"}

\* The paths of the import declarations of t, in order of appearance.
RECURSIVE DeclaredPaths(_)
DeclaredPaths(t) ==
    IF t = <<>> THEN <<>>
    ELSE (IF IsDeclaration(Head(t)) THEN <<Head(t).path>> ELSE <<>>)
         \o DeclaredPaths(Tail(t))

\* Every declaration is written as the spec writes it: `import "p";`,
\* `import public "p";` or `import weak "p";`.
WrittenWithGaps(t) == \A i \in 1..Len(t) : IsDeclaration(t[i]) => t[i].gap

\* C13: _extract_imports returns, in order of appearance, the path of every
\* import declaration of the file, plain, public or weak, and nothing else.
C13_ExtractsEveryImport ==
    (extracted.called /\ WrittenWithGaps(text)) => extracted.paths = DeclaredPaths(text)

\* C13 for files without a public import, which does hold.
ExtractsPlainAndWeak ==
    (extracted.called /\ WrittenWithGaps(text)
       /\ \A i \in 1..Len(text) : text[i].mod # "public")
    => extracted.paths = DeclaredPaths(text)

\* A file with a plain and a weak import and a commented-out one was read.
PlainAndWeakExtracted ==
    /\ extracted.called /\ WrittenWithGaps(text)
    /\ {"none", "weak", "//"} \subseteq {text[i].mod : i \in 1..Len(text)}

\* What becomes of `import public "p";` in fact: it is dropped.
PublicWithGapDropped ==
    extracted.called =>
        Len(extracted.paths) <= Cardinality({i \in 1..Len(text) :
                                  text[i] \notin {Decl("public", TRUE, imp) : imp \in ImportPool}})

\* ------------------------------------------------------------------------
\* descriptor_matches along references, and the panels above a match
\* ------------------------------------------------------------------------

\* A message with a message-typed field referencing a message that
\* satisfies descriptor_matches satisfies it too.
UpwardClosed(g, r) ==
    \A a \in DOMAIN g : \A b \in Refs(g, a) :
        descriptor_matches(g, b, r) => descriptor_matches(g, a, r)

\* The panel of message m.
PanelOf(m) == out[CHOOSE k \in Panels : out[k].text = m]

\* Above every nested panel that is suggested expanded, every panel on its
\* path is for a message that satisfies descriptor_matches, and is
\* suggested expanded.
AncestorsExpanded ==
    \A k \in Panels :
        (out[k].depth > 0 /\ out[k].expanded) =>
            \A m \in Range(out[k].path) :
                /\ descriptor_matches(pool, m, regex)
                /\ PanelOf(m).expanded

\* C14: descriptor_matches is upward-closed along references, also on
\* cyclic graphs; hence in a render with a pattern, whenever a nested panel
\* is suggested expanded, the message of every ancestor panel on its path
\* satisfies descriptor_matches and is suggested expanded.
C14_MatchesUpwardClosed ==
    (pc # "main" /\ HasPattern) => (UpwardClosed(pool, regex) /\ AncestorsExpanded)

\* A finished render with a pattern of the cycle A -> B -> C -> A, in which
\* the panel of C, two levels down, is suggested expanded.
C14_Witness ==
    /\ Done /\ HasPattern
    /\ MsgB \in Refs(pool, MsgA) /\ MsgC \in Refs(pool, MsgB) /\ MsgA \in Refs(pool, MsgC)
    /\ \E k \in Panels :
         /\ out[k].text = MsgC /\ out[k].expanded
         /\ out[k].path = <<MsgA, MsgB>>

\* The closure for a direct call on every bounded graph and pattern.
DirectCallsUpwardClosed == UpwardClosed(pool, regex)

=============================================================================
